---- MODULE Spec2Model ----
(***************************************************************************)
(* Backtest of two portfolio strategies (sentiment-ranked daily            *)
(* rebalancing and buy-and-hold) and the metrics computed from their value *)
(* series.                                                                 *)
(*                                                                         *)
(* Numbers.  Prices, scores and portfolio values are numpy float64 values. *)
(* They are modelled as extended rationals <<n, d>> with d >= 0 kept in    *)
(* lowest terms: d > 0 is the finite value n/d, <<0,0>> is NaN (the        *)
(* "missing" value), <<1,0>> is +inf and <<-1,0>> is -inf.  The operators  *)
(* below follow the IEEE-754 rules for NaN, infinities and division by     *)
(* zero (numpy does not raise on them); rounding is not modelled and all   *)
(* zeros are +0.0 (no input is negative, so no -0.0 arises).               *)
(*                                                                         *)
(* Inputs.  price_data and sentiment_data are immutable tables.  A cell of  *)
(* a table is either a fixed value or Undrawn; an Undrawn cell takes its   *)
(* value when the code first reads it, which is equivalent to drawing the  *)
(* whole table before the call.  Only the cells of the dates the current   *)
(* loop iteration reads are kept in the state (price_row_t, price_row_t1). *)
(***************************************************************************)
EXTENDS Integers, Sequences, FiniteSets, TLC

\* ------------------------------------------------------------------ bounds
\* number of dates of the longest arbitrary price table
NumDates == 2
\* arbitrary prices are drawn from {NaN, 0, .., MaxPrice}
MaxPrice == 1
\* calculate_metrics alone: values 1 .. MaxValue, series of 1 .. MaxLen rows
MaxValue == 3
MaxLen == 4

\* --------------------------------------------------------------- constants
INITIAL_CAPITAL == 100000
TOP_N == 2
\* the ticker universe, cut down to its first three entries
NIFTY_50_TICKERS == <<"RELIANCE.NS", "HDFCBANK.NS", "INFY.NS">>
\* a stock is named by its column position in the tables
Columns == 1 .. Len(NIFTY_50_TICKERS)

\* ------------------------------------------------------------------ floats
NaN == <<0, 0>>
PosInf == <<1, 0>>
NegInf == <<-1, 0>>

Abs(x) == IF x < 0 THEN -x ELSE x

RECURSIVE GCD(_, _)
GCD(a, b) == IF b = 0 THEN a ELSE GCD(b, a % b)

\* the finite value n/d (d # 0) in lowest terms with a positive denominator
Rat(n, d) ==
    LET s == IF d < 0 THEN -1 ELSE 1
        g == GCD(Abs(n), Abs(d))
    IN  <<(s * n) \div g, (s * d) \div g>>

Num(k) == <<k, 1>>

Sign(x) == IF x[1] > 0 THEN 1 ELSE IF x[1] < 0 THEN -1 ELSE 0

\* pd.isna
isna(x) == x = NaN

FNeg(a) == <<-a[1], a[2]>>

FAdd(a, b) ==
    IF isna(a) \/ isna(b) THEN NaN
    ELSE IF a[2] = 0 /\ b[2] = 0 THEN (IF a = b THEN a ELSE NaN)
    ELSE IF a[2] = 0 THEN a
    ELSE IF b[2] = 0 THEN b
    ELSE Rat(a[1] * b[2] + b[1] * a[2], a[2] * b[2])

FSub(a, b) == FAdd(a, FNeg(b))

FMul(a, b) ==
    IF isna(a) \/ isna(b) THEN NaN
    ELSE IF a[2] = 0 \/ b[2] = 0
         THEN (IF a[1] = 0 \/ b[1] = 0 THEN NaN ELSE <<Sign(a) * Sign(b), 0>>)
    ELSE Rat(a[1] * b[1], a[2] * b[2])

FDiv(a, b) ==
    IF isna(a) \/ isna(b) THEN NaN
    ELSE IF b[2] = 0 THEN (IF a[2] = 0 THEN NaN ELSE Num(0))
    ELSE IF b[1] = 0 THEN (IF a[1] = 0 THEN NaN ELSE <<Sign(a), 0>>)
    ELSE IF a[2] = 0 THEN <<Sign(a) * Sign(b), 0>>
    ELSE Rat(a[1] * b[2], a[2] * b[1])

\* a > b; False when either is NaN
FGt(a, b) ==
    /\ ~isna(a)
    /\ ~isna(b)
    /\ IF a[2] = 0 /\ b[2] = 0 THEN a[1] > b[1]
       ELSE a[1] * b[2] > b[1] * a[2]

\* a >= b; False when either is NaN
FGe(a, b) == ~isna(a) /\ ~isna(b) /\ (a = b \/ FGt(a, b))

\* ------------------------------------------------------------------ inputs
\* a table cell whose value is drawn when it is first read
Undrawn == <<>>
\* a score cell of simulate_news_sentiment: np.random.uniform(-1, 1), never NaN
Uniform == <<-1, 1, 0>>

PriceValues == {NaN} \cup {Num(k) : k \in 0 .. MaxPrice}
\* scores lie in [-1, 1]; a score may be missing
ScoreValues == {NaN, Num(-1), Num(1)}

NoRow(cols) == [s \in cols |-> Undrawn]
ArbitraryTable(n, cols) == [i \in 1 .. n |-> NoRow(cols)]

\* the end-to-end scenario: A = [10, 11, 9], B = [20, 19, 22], C = [5, 5, 5],
\* the day-0 signals rank A first, then B
ScenarioPrices ==
    <<  <<Num(10), Num(20), Num(5)>>,
        <<Num(11), Num(19), Num(5)>>,
        <<Num(9), Num(22), Num(5)>>  >>
ScenarioSignals ==
    <<  <<Num(1), Num(0), Num(-1)>>,
        NoRow(Columns),
        NoRow(Columns)  >>
\* the static hold scenario: two assets flat at 100 and 200 over two dates
FlatPrices ==
    <<  <<Num(100), Num(200)>>,
        <<Num(100), Num(200)>>  >>

VARIABLES
    pc,               \* position of the run
    caller,           \* "main", or "test" when a function is called on its own
    output,           \* the lines printed so far
    price_data,       \* the price table: one row of cells per date
    sentiment_data,   \* the score table
    price_row_t,      \* the cells of date t read so far
    price_row_t1,     \* the cells of date t+1 read so far
    t,                \* loop index
    sentiment_today,  \* locals of the current iteration
    top_stocks,
    valid_stocks,
    allocation,
    shares,
    portfolio_return,
    total_value,
    weights,
    portfolio_value,  \* the lists a strategy grows
    daily_returns,
    holdings,
    portfolio_df,     \* the frame a strategy returns: rows [Date, Portfolio_Value, Daily_Return]
    empty_days,       \* history: the transitions whose valid subset was empty
    sentiment_portfolio,  \* locals of main
    bh_portfolio,
    sentiment_metrics,
    bh_metrics,
    metrics           \* what calculate_metrics returns when called on its own

vars == <<pc, caller, output, price_data, sentiment_data, price_row_t,
          price_row_t1, t, sentiment_today, top_stocks, valid_stocks,
          allocation, shares, portfolio_return, total_value, weights,
          portfolio_value, daily_returns, holdings, portfolio_df, empty_days,
          sentiment_portfolio, bh_portfolio, sentiment_metrics, bh_metrics,
          metrics>>

\* the locals of one loop iteration
locals == <<sentiment_today, top_stocks, valid_stocks, allocation, shares,
            portfolio_return, total_value, weights>>
\* the locals of main
results == <<sentiment_portfolio, bh_portfolio, sentiment_metrics, bh_metrics,
             metrics>>

None == <<>>

Range(s) == {s[i] : i \in DOMAIN s}
Last(s) == s[Len(s)]

\* the columns of a table
ColumnsOf(table) == IF Len(table) = 0 THEN {} ELSE DOMAIN table[1]
\* price_data.columns
columns == ColumnsOf(price_data)

\* the values the cell (date position i, stock s) may be read as, given the
\* cells of that date already read
PriceChoices(known, i, s) ==
    IF known[s] # Undrawn THEN {known[s]}
    ELSE IF price_data[i + 1][s] # Undrawn THEN {price_data[i + 1][s]}
    ELSE PriceValues

\* price_data.loc[price_data.index[i], s] for every s in stocks: the rows that
\* extend `known` with those cells
ReadPrices(known, i, stocks) ==
    LET pool == UNION {PriceChoices(known, i, s) : s \in stocks}
        reads == {f \in [stocks -> pool] :
                      \A s \in stocks : f[s] \in PriceChoices(known, i, s)}
    IN  {[s \in DOMAIN known |-> IF s \in stocks THEN f[s] ELSE known[s]] :
             f \in reads}

ScoreChoices(i, s) ==
    LET cell == sentiment_data[i + 1][s]
    IN  IF cell = Undrawn THEN ScoreValues
        ELSE IF cell = Uniform THEN ScoreValues \ {NaN}
        ELSE {cell}

\* sentiment_data.iloc[i]
ReadScores(i) ==
    LET pool == UNION {ScoreChoices(i, s) : s \in columns}
    IN  {f \in [columns -> pool] : \A s \in columns : f[s] \in ScoreChoices(i, s)}

\* ------------------------------------------------- sentiment_trading_strategy
\* Series.sort_values(ascending=False): scores descending, NaN last in
\* column order.  The default kind is quicksort, which is not stable: equal
\* scores may come out in any order.
sort_values(scores) ==
    {o \in Permutations(DOMAIN scores) :
        \A i \in DOMAIN scores : \A j \in DOMAIN scores :
            i < j =>
                IF isna(scores[o[i]]) THEN isna(scores[o[j]]) /\ o[i] < o[j]
                ELSE isna(scores[o[j]]) \/ FGe(scores[o[i]], scores[o[j]])}

head(s, k) == SubSeq(s, 1, IF k < Len(s) THEN k ELSE Len(s))

\* line 77: the top stocks whose price at t is not missing, in rank order
RECURSIVE ValidStocks(_, _)
ValidStocks(top, row_t) ==
    IF top = <<>> THEN <<>>
    ELSE (IF isna(row_t[Head(top)]) THEN <<>> ELSE <<Head(top)>>)
         \o ValidStocks(Tail(top), row_t)

\* a variant of PortfolioReturn that averages over the stocks whose price at
\* t+1 is present instead of over all valid stocks
RECURSIVE PortfolioReturnOverPresent(_, _, _, _, _)
PortfolioReturnOverPresent(valid, i, row_t, row_t1, acc) ==
    IF i > Len(valid) THEN acc
    ELSE LET price_t == row_t[valid[i]]
             price_t1 == row_t1[valid[i]]
             present == {k \in DOMAIN valid : ~isna(row_t1[valid[k]])}
         IN  IF isna(price_t1)
             THEN PortfolioReturnOverPresent(valid, i + 1, row_t, row_t1, acc)
             ELSE LET stock_return == FDiv(FSub(price_t1, price_t), price_t)
                  IN  PortfolioReturnOverPresent(valid, i + 1, row_t, row_t1,
                          FAdd(acc, FDiv(stock_return, Num(Cardinality(present)))))

\* lines 85-91: the loop over valid[i..], started from acc
RECURSIVE PortfolioReturn(_, _, _, _, _)
PortfolioReturn(valid, i, row_t, row_t1, acc) ==
    IF i > Len(valid) THEN acc
    ELSE LET price_t == row_t[valid[i]]
             price_t1 == row_t1[valid[i]]
         IN  IF isna(price_t1)
             THEN PortfolioReturn(valid, i + 1, row_t, row_t1, acc)
             ELSE LET stock_return == FDiv(FSub(price_t1, price_t), price_t)
                  IN  PortfolioReturn(valid, i + 1, row_t, row_t1,
                          FAdd(acc, FDiv(stock_return, Num(Len(valid)))))

\* line 93
NewValue(value, ret) == FMul(value, FAdd(Num(1), ret))

\* line 99
Weights(valid, alloc, value) == [s \in Range(valid) |-> FDiv(alloc, value)]

StrategyHeader ==
    <<"Sentiment-Based Strategy - Daily Portfolio Values, Holdings, and Weights:",
      "Date: d0, Portfolio Value, Holdings: Initial Capital">>

NoLocals ==
    /\ sentiment_today = None
    /\ top_stocks = <<>>
    /\ valid_stocks = <<>>
    /\ allocation = None
    /\ shares = None
    /\ portfolio_return = None
    /\ total_value = None
    /\ weights = None

\* the locals hold nothing at the head of a loop iteration
DropLocals ==
    /\ sentiment_today' = None
    /\ top_stocks' = <<>>
    /\ valid_stocks' = <<>>
    /\ allocation' = None
    /\ shares' = None
    /\ portfolio_return' = None
    /\ total_value' = None
    /\ weights' = None

NoResults ==
    /\ sentiment_portfolio = None
    /\ bh_portfolio = None
    /\ sentiment_metrics = None
    /\ bh_metrics = None
    /\ metrics = None

\* lines 66-71: the state on entry to the loop
StrategyEntry ==
    /\ t' = 0
    /\ price_row_t' = NoRow(ColumnsOf(price_data'))
    /\ price_row_t1' = NoRow(ColumnsOf(price_data'))
    /\ portfolio_value' = <<Num(INITIAL_CAPITAL)>>
    /\ daily_returns' = <<>>
    /\ holdings' = <<>>
    /\ empty_days' = {}

\* lines 74-79: one iteration whose valid subset is empty (continue)
SkipDay ==
    /\ pc = "sentiment_loop"
    /\ t < Len(price_data) - 1
    /\ \E scores \in ReadScores(t) :
        \E order \in sort_values(scores) :
            \E row_t \in ReadPrices(price_row_t, t, Range(head(order, TOP_N))) :
                LET top == head(order, TOP_N)
                    valid == ValidStocks(top, row_t)
                IN  /\ Len(valid) = 0
                    /\ sentiment_today' = scores
                    /\ top_stocks' = top
                    /\ valid_stocks' = valid
                    /\ price_row_t' = row_t
    /\ empty_days' = empty_days \cup {t}
    /\ pc' = "sentiment_next"
    /\ UNCHANGED <<caller, output, price_data, sentiment_data, price_row_t1, t,
                   allocation, shares, portfolio_return, total_value, weights,
                   portfolio_value, daily_returns, holdings, portfolio_df>>
    /\ UNCHANGED results

\* lines 74-101: one iteration with a non-empty valid subset
Rebalance ==
    /\ pc = "sentiment_loop"
    /\ t < Len(price_data) - 1
    /\ \E scores \in ReadScores(t) :
        \E order \in sort_values(scores) :
            \E row_t \in ReadPrices(price_row_t, t, Range(head(order, TOP_N))) :
                LET top == head(order, TOP_N)
                    valid == ValidStocks(top, row_t)
                IN  /\ Len(valid) # 0
                    /\ \E row_t1 \in ReadPrices(price_row_t1, t + 1, Range(valid)) :
                        LET value == Last(portfolio_value)
                            alloc == FDiv(value, Num(Len(valid)))
                            ret == PortfolioReturn(valid, 1, row_t, row_t1, Num(0))
                            new_value == NewValue(value, ret)
                        IN  /\ sentiment_today' = scores
                            /\ top_stocks' = top
                            /\ valid_stocks' = valid
                            /\ price_row_t' = row_t
                            /\ price_row_t1' = row_t1
                            /\ allocation' = alloc
                            /\ shares' = [s \in Range(valid) |-> FDiv(alloc, row_t[s])]
                            /\ portfolio_return' = ret
                            /\ portfolio_value' = Append(portfolio_value, new_value)
                            /\ daily_returns' = Append(daily_returns, ret)
                            /\ holdings' = Append(holdings, valid)
                            /\ weights' = Weights(valid, alloc, new_value)
    /\ output' = Append(output, "Date, Portfolio Value, Holdings: weights")
    /\ pc' = "sentiment_next"
    /\ UNCHANGED <<caller, price_data, sentiment_data, t, total_value,
                   portfolio_df, empty_days>>
    /\ UNCHANGED results

\* line 73: the for statement takes the next t.  Every iteration assigns its
\* locals before it reads them, so they are dropped here.
NextDay ==
    /\ pc = "sentiment_next"
    /\ t' = t + 1
    /\ price_row_t' = price_row_t1
    /\ price_row_t1' = NoRow(columns)
    /\ DropLocals
    /\ pc' = "sentiment_loop"
    /\ UNCHANGED <<caller, output, price_data, sentiment_data, portfolio_value,
                   daily_returns, holdings, portfolio_df, empty_days>>
    /\ UNCHANGED results

\* lines 103-107: the frame over price_data.index[:len(portfolio_value)]
Frame(values, returns) ==
    [i \in 1 .. Len(values) |->
        [Date |-> i - 1, Portfolio_Value |-> values[i], Daily_Return |-> returns[i]]]

\* lines 103-108: the loop is exhausted
StrategyReturn ==
    /\ pc = "sentiment_loop"
    /\ t >= Len(price_data) - 1
    /\ portfolio_df' = Frame(portfolio_value, <<Num(0)>> \o daily_returns)
    /\ pc' = IF caller = "main" THEN "main_hold" ELSE "returned"
    /\ UNCHANGED <<caller, output, price_data, sentiment_data, price_row_t,
                   price_row_t1, t, portfolio_value, daily_returns, holdings,
                   empty_days>>
    /\ UNCHANGED locals
    /\ UNCHANGED results

\* ------------------------------------------------------ buy_and_hold_strategy
\* line 122: the sum over the stocks s.. whose price is present, from acc
RECURSIVE TotalValue(_, _, _, _)
TotalValue(sh, row, s, acc) ==
    IF s \notin DOMAIN row THEN acc
    ELSE TotalValue(sh, row, s + 1,
             IF isna(row[s]) THEN acc ELSE FAdd(acc, FMul(sh[s], row[s])))

\* a variant of HoldValue without the carry-forward
HoldValueNoCarry(total, i, values) == total

\* line 123: the value appended for date position i
HoldValue(total, i, values) ==
    IF FGt(total, Num(0)) THEN total
    ELSE IF i > 0 THEN Last(values)
    ELSE Num(INITIAL_CAPITAL)

\* lines 126-127
HoldWeights(sh, row, value) ==
    [s \in DOMAIN sh |->
        IF ~isna(row[s]) THEN FDiv(FMul(sh[s], row[s]), value) ELSE Num(0)]

\* lines 130-134
HoldReturn(i, values) ==
    IF i > 0
    THEN FDiv(FSub(values[Len(values)], values[Len(values) - 1]),
              values[Len(values) - 1])
    ELSE Num(0)

\* lines 112-119: the shares bought at the first date.  (avg_prices of line
\* 112 is never read.)
HoldStart ==
    /\ pc = "hold_start"
    /\ \E row_0 \in ReadPrices(NoRow(columns), 0, columns) :
        LET initial_investment_per_stock ==
                FDiv(Num(INITIAL_CAPITAL), Num(Cardinality(columns)))
        IN  /\ shares' = [s \in columns |->
                             FDiv(initial_investment_per_stock, row_0[s])]
            /\ price_row_t' = row_0
    /\ price_row_t1' = NoRow(columns)
    /\ t' = 0
    /\ daily_returns' = <<>>
    /\ portfolio_value' = <<>>
    /\ output' = Append(output,
           "Buy-and-Hold Strategy - Daily Portfolio Values, Holdings, and Weights:")
    /\ pc' = "hold_loop"
    /\ UNCHANGED <<caller, price_data, sentiment_data, sentiment_today,
                   top_stocks, valid_stocks, allocation, portfolio_return,
                   total_value, weights, holdings, portfolio_df, empty_days>>
    /\ UNCHANGED results

\* lines 120-136: one date of the loop
HoldDay ==
    /\ pc = "hold_loop"
    /\ t < Len(price_data)
    /\ \E row \in ReadPrices(price_row_t, t, columns) :
        LET total == TotalValue(shares, row, 1, Num(0))
            value == HoldValue(total, t, portfolio_value)
            values == Append(portfolio_value, value)
        IN  /\ price_row_t' = row
            /\ total_value' = total
            /\ portfolio_value' = values
            /\ weights' = HoldWeights(shares, row, value)
            /\ daily_returns' = Append(daily_returns, HoldReturn(t, values))
    /\ output' = Append(output, "Date, Portfolio Value, Holdings: weights")
    /\ pc' = "hold_next"
    /\ UNCHANGED <<caller, price_data, sentiment_data, price_row_t1, t,
                   sentiment_today, top_stocks, valid_stocks, allocation,
                   shares, portfolio_return, holdings, portfolio_df,
                   empty_days>>
    /\ UNCHANGED results

\* line 120: the for statement takes the next date
HoldNext ==
    /\ pc = "hold_next"
    /\ t' = t + 1
    /\ price_row_t' = NoRow(columns)
    /\ total_value' = None
    /\ weights' = None
    /\ pc' = "hold_loop"
    /\ UNCHANGED <<caller, output, price_data, sentiment_data, price_row_t1,
                   sentiment_today, top_stocks, valid_stocks, allocation,
                   shares, portfolio_return, portfolio_value, daily_returns,
                   holdings, portfolio_df, empty_days>>
    /\ UNCHANGED results

\* lines 138-143
HoldFinish ==
    /\ pc = "hold_loop"
    /\ t >= Len(price_data)
    /\ portfolio_df' = Frame(portfolio_value, daily_returns)
    /\ pc' = IF caller = "main" THEN "main_metrics" ELSE "returned"
    /\ UNCHANGED <<caller, output, price_data, sentiment_data, price_row_t,
                   price_row_t1, t, portfolio_value, daily_returns, holdings,
                   empty_days>>
    /\ UNCHANGED locals
    /\ UNCHANGED results

\* ---------------------------------------------------------- calculate_metrics
\* the largest of a non-empty set of values, none NaN
FMax(S) == CHOOSE x \in S : \A y \in S : FGe(x, y)
FMin(S) == CHOOSE x \in S : \A y \in S : FGe(y, x)

\* a variant of cummax that takes the maximum of the whole series (.max())
WholeSeriesMax(values) ==
    [i \in DOMAIN values |->
        IF isna(values[i]) THEN NaN
        ELSE FMax({values[j] : j \in {k \in DOMAIN values : ~isna(values[k])}})]

\* Series.cummax(): the running maximum, missing values skipped
cummax(values) ==
    [i \in DOMAIN values |->
        IF isna(values[i]) THEN NaN
        ELSE FMax({values[j] : j \in {k \in 1 .. i : ~isna(values[k])}})]

\* Series.min(): missing values skipped
min(values) ==
    LET present == {values[i] : i \in {k \in DOMAIN values : ~isna(values[k])}}
    IN  IF present = {} THEN NaN ELSE FMin(present)

\* lines 154-156
MaxDrawdown(values) ==
    LET rolling_max == cummax(values)
        drawdowns == [i \in DOMAIN values |->
                         FDiv(FSub(values[i], rolling_max[i]), rolling_max[i])]
    IN  min(drawdowns)

\* lines 146-166.  The annualized return, the Sharpe ratio and the volatility
\* are powers and square roots, which have no rational value: the record
\* keeps the two metrics that do.
calculate_metrics(df) ==
    LET values == [i \in DOMAIN df |-> df[i].Portfolio_Value]
        total_return == FDiv(FSub(Last(values), Num(INITIAL_CAPITAL)),
                             Num(INITIAL_CAPITAL))
    IN  [Total_Return |-> total_return, Max_Drawdown |-> MaxDrawdown(values)]

MetricsLines ==
    <<"Total Return", "Annualized Return", "Sharpe Ratio", "Max Drawdown",
      "Volatility">>

CalculateMetrics ==
    /\ pc = "metrics_call"
    /\ metrics' = calculate_metrics(portfolio_df)
    /\ pc' = "returned"
    /\ UNCHANGED <<caller, output, price_data, sentiment_data, price_row_t,
                   price_row_t1, t, portfolio_value, daily_returns, holdings,
                   portfolio_df, empty_days, sentiment_portfolio, bh_portfolio,
                   sentiment_metrics, bh_metrics>>
    /\ UNCHANGED locals

\* ----------------------------------------------------------------------- main
\* line 31: dropna(how='all') drops the dates whose prices are all missing
fetch_stock_data(close) ==
    SelectSeq(close, LAMBDA row : \E s \in DOMAIN row : ~isna(row[s]))

\* a variant of IsEmpty that tests for a missing table (price_data is None)
IsNone(table) == FALSE

\* line 172: price_data.empty
IsEmpty(table) == Len(table) = 0

\* lines 35-39: a table of uniform draws over the dates of price_data
simulate_news_sentiment(table) ==
    [i \in DOMAIN table |-> [s \in ColumnsOf(table) |-> Uniform]]

MissingRow == <<NaN, NaN, NaN>>
\* what the price source may answer: the columns of the Close prices
YahooTables ==
    {   <<>>,
        <<MissingRow>>,
        <<MissingRow, MissingRow>>,
        ScenarioPrices,
        <<ScenarioPrices[1], MissingRow, ScenarioPrices[2]>>,
        <<  <<NaN, NaN, Num(5)>>, <<Num(1), Num(2), NaN>>, <<Num(0), Num(2), Num(1)>>  >>  }

\* lines 170-174: nothing usable was fetched
MainFetchEmpty ==
    /\ pc = "main"
    /\ \E close \in YahooTables :
        /\ IsEmpty(fetch_stock_data(close))
        /\ price_data' = fetch_stock_data(close)
    /\ output' = <<"Fetching stock price data from Yahoo Finance...",
                   "Error: No data fetched from Yahoo Finance">>
    /\ pc' = "returned"
    /\ UNCHANGED <<caller, sentiment_data, price_row_t, price_row_t1, t,
                   portfolio_value, daily_returns, holdings, portfolio_df,
                   empty_days>>
    /\ UNCHANGED locals
    /\ UNCHANGED results

\* lines 170-180 and 66-71: prices were fetched; the sentiment strategy starts
MainFetchData ==
    /\ pc = "main"
    /\ \E close \in YahooTables :
        /\ ~IsEmpty(fetch_stock_data(close))
        /\ price_data' = fetch_stock_data(close)
    /\ sentiment_data' = simulate_news_sentiment(price_data')
    /\ output' = <<"Fetching stock price data from Yahoo Finance...",
                   "Computing sentiment data...",
                   "Running sentiment-based strategy...">> \o StrategyHeader
    /\ StrategyEntry
    /\ pc' = "sentiment_loop"
    /\ UNCHANGED <<caller, portfolio_df>>
    /\ UNCHANGED locals
    /\ UNCHANGED results

\* lines 180-183
MainHold ==
    /\ pc = "main_hold"
    /\ sentiment_portfolio' = portfolio_df
    /\ output' = Append(output, "Running buy-and-hold strategy...")
    /\ pc' = "hold_start"
    /\ UNCHANGED <<caller, price_data, sentiment_data, price_row_t,
                   price_row_t1, t, portfolio_value, daily_returns, holdings,
                   portfolio_df, empty_days, bh_portfolio, sentiment_metrics,
                   bh_metrics, metrics>>
    /\ UNCHANGED locals

\* lines 183-194 (the chart of lines 196-204 changes nothing)
MainMetrics ==
    /\ pc = "main_metrics"
    /\ bh_portfolio' = portfolio_df
    /\ sentiment_metrics' = calculate_metrics(sentiment_portfolio)
    /\ bh_metrics' = calculate_metrics(portfolio_df)
    /\ output' = output \o <<"Sentiment-Based Strategy Metrics:">> \o MetricsLines
                        \o <<"Buy-and-Hold Strategy Metrics:">> \o MetricsLines
    /\ pc' = "returned"
    /\ UNCHANGED <<caller, price_data, sentiment_data, price_row_t,
                   price_row_t1, t, portfolio_value, daily_returns, holdings,
                   portfolio_df, empty_days, sentiment_portfolio, metrics>>
    /\ UNCHANGED locals

\* -------------------------------------------------------------- specifications
Idle ==
    /\ output = <<>>
    /\ price_data = <<>>
    /\ sentiment_data = <<>>
    /\ t = 0
    /\ price_row_t = <<>>
    /\ price_row_t1 = <<>>
    /\ portfolio_value = <<>>
    /\ daily_returns = <<>>
    /\ holdings = <<>>
    /\ empty_days = {}
    /\ portfolio_df = None
    /\ NoLocals
    /\ NoResults

\* the program: main
Init ==
    /\ pc = "main"
    /\ caller = "main"
    /\ Idle

Next ==
    \/ MainFetchEmpty
    \/ MainFetchData
    \/ SkipDay
    \/ Rebalance
    \/ NextDay
    \/ StrategyReturn
    \/ MainHold
    \/ HoldStart
    \/ HoldDay
    \/ HoldNext
    \/ HoldFinish
    \/ MainMetrics

Spec == Init /\ [][Next]_vars

\* sentiment_trading_strategy called on its own, on an arbitrary table or on
\* the end-to-end scenario
StrategyInit ==
    /\ pc = "sentiment_loop"
    /\ caller = "test"
    /\ output = StrategyHeader
    /\ \/ \E n \in 1 .. NumDates :
            /\ price_data = ArbitraryTable(n, Columns)
            /\ sentiment_data = ArbitraryTable(n, Columns)
       \/ /\ price_data = ScenarioPrices
          /\ sentiment_data = ScenarioSignals
    /\ t = 0
    /\ price_row_t = NoRow(Columns)
    /\ price_row_t1 = NoRow(Columns)
    /\ portfolio_value = <<Num(INITIAL_CAPITAL)>>
    /\ daily_returns = <<>>
    /\ holdings = <<>>
    /\ empty_days = {}
    /\ portfolio_df = None
    /\ NoLocals
    /\ NoResults

StrategyNext == SkipDay \/ Rebalance \/ NextDay \/ StrategyReturn

SpecStrategy == StrategyInit /\ [][StrategyNext]_vars

\* buy_and_hold_strategy called on its own, on an arbitrary table or on the
\* static hold scenario
HoldInit ==
    /\ pc = "hold_start"
    /\ caller = "test"
    /\ output = <<>>
    /\ \/ \E n \in 1 .. NumDates : price_data = ArbitraryTable(n, Columns)
       \/ price_data = FlatPrices
    /\ sentiment_data = <<>>
    /\ t = 0
    /\ price_row_t = NoRow(columns)
    /\ price_row_t1 = NoRow(columns)
    /\ portfolio_value = <<>>
    /\ daily_returns = <<>>
    /\ holdings = <<>>
    /\ empty_days = {}
    /\ portfolio_df = None
    /\ NoLocals
    /\ NoResults

HoldNextStep == HoldStart \/ HoldDay \/ HoldNext \/ HoldFinish

SpecHold == HoldInit /\ [][HoldNextStep]_vars

\* the daily returns of a value series, as both strategies report them
PctChange(values) ==
    [i \in DOMAIN values |->
        IF i = 1 THEN Num(0)
        ELSE FDiv(FSub(values[i], values[i - 1]), values[i - 1])]

\* calculate_metrics called on its own, on a frame of positive values
MetricsInit ==
    /\ pc = "metrics_call"
    /\ caller = "test"
    /\ \E n \in 1 .. MaxLen : \E v \in [1 .. n -> 1 .. MaxValue] :
        LET values == [i \in 1 .. n |-> Num(v[i])]
        IN  portfolio_df = Frame(values, PctChange(values))
    /\ output = <<>>
    /\ price_data = <<>>
    /\ sentiment_data = <<>>
    /\ t = 0
    /\ price_row_t = <<>>
    /\ price_row_t1 = <<>>
    /\ portfolio_value = <<>>
    /\ daily_returns = <<>>
    /\ holdings = <<>>
    /\ empty_days = {}
    /\ NoLocals
    /\ NoResults

MetricsNext == CalculateMetrics

SpecMetrics == MetricsInit /\ [][MetricsNext]_vars

\* ---------------------------------------------------------------- properties
RECURSIVE SumOver(_, _)
SumOver(f, S) ==
    IF S = {} THEN Num(0)
    ELSE LET x == CHOOSE y \in S : TRUE
         IN  FAdd(f[x], SumOver(f, S \ {x}))

\* an iteration of the sentiment loop has just run
AfterIteration == pc = "sentiment_next"

\* V: the top stocks whose price at t is present
ValidSubset == {a \in Range(top_stocks) : ~isna(price_row_t[a])}

\* r_a: the return of a held stock, 0 when its price at t+1 is missing
AssetReturn(a) ==
    IF isna(price_row_t1[a]) THEN Num(0)
    ELSE FDiv(FSub(price_row_t1[a], price_row_t[a]), price_row_t[a])

\* R: the sum over V of r_a / |V|
StepReturn ==
    SumOver([a \in ValidSubset |->
                FDiv(AssetReturn(a), Num(Cardinality(ValidSubset)))],
            ValidSubset)

\* the transitions so far that appended a value
Appended == (t + 1) - Cardinality(empty_days)

\* C1: after a transition with a non-empty valid subset V, a value was
\* appended and it is value_t * (1 + R), R the sum over V of r_a / |V| with
\* r_a = 0 for a missing price at t+1; on the end-to-end scenario the day-1
\* value is INITIAL_CAPITAL * 1.025.  (A NaN value matches a NaN result.)
C1_StepValue ==
    /\ (AfterIteration /\ ValidSubset # {}) =>
          /\ Len(portfolio_value) = 1 + Appended
          /\ Last(portfolio_value) =
                FMul(portfolio_value[Len(portfolio_value) - 1],
                     FAdd(Num(1), StepReturn))
    /\ (price_data = ScenarioPrices /\ Len(portfolio_value) >= 2) =>
          portfolio_value[2] = FMul(Num(INITIAL_CAPITAL), Rat(1025, 1000))

\* C1 witness: two stocks are held, one has no price at t+1 and the other one
\* moved
C1_Witness ==
    /\ AfterIteration
    /\ \E a \in ValidSubset : \E b \in ValidSubset :
          /\ isna(price_row_t1[a])
          /\ ~isna(price_row_t1[b])
          /\ AssetReturn(b) = Num(-1)
    /\ Last(portfolio_value) = Rat(INITIAL_CAPITAL, 2)

\* C2: the returned value series has one entry for every date of price_data
C2_OneEntryPerDate ==
    pc = "returned" =>
        /\ Len(portfolio_df) = Len(price_data)
        /\ \A i \in DOMAIN portfolio_df : portfolio_df[i].Date = i - 1

\* C3: for a transition t whose top stocks all lack a price at t, the entry of
\* date t+1 repeats the value of date t with a daily return of 0, and no
\* holdings record is appended
C3_EmptyDayCarriesForward ==
    /\ Len(holdings) = Len(portfolio_value) - 1
    /\ pc = "returned" =>
          \A d \in empty_days :
              /\ d + 2 \in DOMAIN portfolio_df
              /\ portfolio_df[d + 2].Portfolio_Value = portfolio_df[d + 1].Portfolio_Value
              /\ portfolio_df[d + 2].Daily_Return = Num(0)

\* C4: after a transition whose held stocks all have a price at t+1, the
\* reported weights sum to 1 (stated for positive prices, where every number
\* involved is finite)
C4_WeightsSumToOne ==
    (/\ AfterIteration
     /\ ValidSubset # {}
     /\ \A a \in ValidSubset :
           FGt(price_row_t[a], Num(0)) /\ FGt(price_row_t1[a], Num(0))) =>
        SumOver(weights, DOMAIN weights) = Num(1)

\* C5: every portfolio value a strategy emits is >= 0 (no price of the model
\* is negative)
C5_ValuesNonNegative ==
    \A i \in DOMAIN portfolio_value : FGe(portfolio_value[i], Num(0))

\* C6: a stock whose score at t is missing is not held for the transition
C6_MissingScoreNotHeld ==
    AfterIteration =>
        \A a \in Range(valid_stocks) : ~isna(sentiment_today[a])

\* the ranking that breaks ties by column order
StableRanking(scores) ==
    CHOOSE o \in sort_values(scores) :
        \A i \in DOMAIN o : \A j \in DOMAIN o :
            (i < j /\ scores[o[i]] = scores[o[j]]) => o[i] < o[j]

\* C10: stocks with equal scores are ranked in column order, so the top
\* stocks are those of the stable ranking, in its order
C10_TiesInColumnOrder ==
    AfterIteration =>
        top_stocks = head(StableRanking(sentiment_today), TOP_N)

\* ------ calculate_metrics
SeriesValues == [i \in DOMAIN portfolio_df |-> portfolio_df[i].Portfolio_Value]
NonDecreasing(values) ==
    \A i \in DOMAIN values : \A j \in DOMAIN values :
        i < j => FGe(values[j], values[i])

\* C7: on a series of positive values max_drawdown is <= 0, and it is 0
\* exactly when the series is non-decreasing
C7_DrawdownBound ==
    (pc = "returned" /\ caller = "test" /\ metrics # None) =>
        /\ FGe(Num(0), metrics.Max_Drawdown)
        /\ metrics.Max_Drawdown = Num(0) <=> NonDecreasing(SeriesValues)

\* C7 witness: a series that rises and then falls below its peak
C7_Witness ==
    /\ pc = "returned"
    /\ metrics # None
    /\ Len(portfolio_df) >= 3
    /\ FGt(SeriesValues[2], SeriesValues[1])
    /\ FGt(SeriesValues[2], SeriesValues[3])
    /\ FGt(Num(0), metrics.Max_Drawdown)

\* ------ main
\* C8: when no usable price row was fetched, main has returned after the error
\* message and nothing else: no strategy was started, no metrics were
\* computed and no metrics line was printed
C8_EmptyPricesAbort ==
    (pc # "main" /\ caller = "main" /\ Len(price_data) = 0) =>
        /\ pc = "returned"
        /\ output = <<"Fetching stock price data from Yahoo Finance...",
                      "Error: No data fetched from Yahoo Finance">>
        /\ portfolio_value = <<>>
        /\ holdings = <<>>
        /\ portfolio_df = None
        /\ NoResults

\* C8 witness: main returned on an empty price table
C8_Witness ==
    /\ pc = "returned"
    /\ caller = "main"
    /\ Len(price_data) = 0
    /\ Len(output) = 2

\* ------ buy_and_hold_strategy
\* every share count is a positive finite number: the prices of the first
\* date were present and positive
SharesPositive ==
    /\ shares # None
    /\ \A s \in DOMAIN shares : shares[s][2] # 0 /\ FGt(shares[s], Num(0))

\* S_t: the worth of the shares at the prices present at date t
HeldWorth ==
    LET present == {s \in DOMAIN shares : ~isna(price_row_t[s])}
    IN  SumOver([s \in present |-> FMul(shares[s], price_row_t[s])], present)

\* C9: with positive prices at the first date, shares[a] is
\* (INITIAL_CAPITAL / number of stocks) / price(a, d0); the value at date t is
\* S_t when S_t > 0, and otherwise (t > 0) it repeats the value of t-1 with a
\* daily return of 0, so the value stays positive; on the two flat assets the
\* value is unchanged and the second daily return is 0
C9_HoldValue ==
    /\ (pc = "hold_next" /\ t = 0
            /\ \A s \in DOMAIN price_row_t : FGt(price_row_t[s], Num(0))) =>
          \A s \in DOMAIN shares :
              shares[s] = FDiv(FDiv(Num(INITIAL_CAPITAL), Num(Cardinality(columns))),
                               price_row_t[s])
    /\ (pc = "hold_next" /\ SharesPositive) =>
          /\ Len(portfolio_value) = t + 1
          /\ IF FGt(HeldWorth, Num(0))
             THEN Last(portfolio_value) = HeldWorth
             ELSE /\ t > 0
                  /\ Last(portfolio_value) = portfolio_value[t]
                  /\ Last(daily_returns) = Num(0)
          /\ FGt(Last(portfolio_value), Num(0))
    /\ (pc = "returned" /\ price_data = FlatPrices) =>
          /\ Len(portfolio_df) = 2
          /\ portfolio_df[2].Portfolio_Value = portfolio_df[1].Portfolio_Value
          /\ portfolio_df[2].Daily_Return = Num(0)

\* C9 witness: on a later date every price is missing and the value of the
\* day before is carried forward
C9_Witness ==
    /\ pc = "hold_next"
    /\ SharesPositive
    /\ t > 0
    /\ \A s \in DOMAIN price_row_t : isna(price_row_t[s])
    /\ Last(portfolio_value) = portfolio_value[t]

====
